---- MODULE Spec2Model ----
(***************************************************************************)
(* A model of the C++ refactor API: the rule engine run_builtin_rules, the *)
(* /refactor handler with its outbound model call, the extraction of the   *)
(* structured result from the model text, and process startup.             *)
(*                                                                         *)
(* Text is a sequence of symbols.  A symbol is one character, written as a *)
(* one-character string; the backquote is written BT.  Literals that no    *)
(* pattern and no parser looks into (rule ids, messages, error texts) are  *)
(* kept as one symbol each.                                                *)
(***************************************************************************)
EXTENDS Integers, Sequences, FiniteSets, TLC

VARIABLES
    app,            \* "importing" | "running" | "aborted": the import of main.py
    environ,        \* os.environ["OPENROUTER_API_KEY"]: None, or a str
    pc,             \* where the request stands: IDLE, CALLING_MODEL or its terminal state
    req,            \* the RefactorRequest: [code, rules]
    rules_findings, \* refactor's local rules_findings
    outbound,       \* requests.post calls made for the current request
    upstream,       \* outcome of the outbound call
    text,           \* refactor's local text (the cleaned model text)
    response        \* the HTTP response: [status, body]

vars == <<app, environ, pc, req, rules_findings, outbound, upstream, text, response>>

(***************************************************************************)
(* Text primitives                                                         *)
(***************************************************************************)
BT == "<backquote>"

Space == {" ", "\n", "\t", "\r"}

Digit == {"0", "1", "2", "3", "4", "5", "6", "7", "8", "9"}

Word ==
    Digit \cup {"_"} \cup
    {"a", "b", "c", "d", "e", "f", "g", "h", "i", "j", "k", "l", "m",
     "n", "o", "p", "q", "r", "s", "t", "u", "v", "w", "x", "y", "z",
     "A", "B", "C", "D", "E", "F", "G", "H", "I", "J", "K", "L", "M",
     "N", "O", "P", "Q", "R", "S", "T", "U", "V", "W", "X", "Y", "Z"}

Max(S) == CHOOSE x \in S : \A y \in S : y <= x

Min(S) == CHOOSE x \in S : \A y \in S : x <= y

\* The symbol at position i (1-based), "" past either end.
At(t, i) == IF i >= 1 /\ i <= Len(t) THEN t[i] ELSE ""

(***************************************************************************)
(* Pattern pieces.  A position is the 1-based index of the next symbol to  *)
(* read; 0 stands for "no match" and is passed through by every piece.     *)
(***************************************************************************)
\* The literal lit at position i.
Lit(t, i, lit) ==
    IF i # 0 /\ i + Len(lit) - 1 <= Len(t) /\ SubSeq(t, i, i + Len(lit) - 1) = lit
    THEN i + Len(lit)
    ELSE 0

\* class*: greedy; every use is followed by a symbol outside the class, so
\* the longest run is the only one that can match.
Many(t, i, class) ==
    IF i = 0 THEN 0
    ELSE Min({j \in i..(Len(t) + 1) : At(t, j) \notin class})

\* class+
Many1(t, i, class) ==
    IF i # 0 /\ At(t, i) \in class THEN Many(t, i, class) ELSE 0

\* Everything up to the first symbol of stop (or the end of the text).
Until(t, i, stop) ==
    IF i = 0 THEN 0
    ELSE Min({j \in i..(Len(t) + 1) : At(t, j) \in stop \cup {""}})

(***************************************************************************)
(* The patterns of run_builtin_rules.  Each operator gives the position    *)
(* after the match that starts at i, or 0.                                 *)
(***************************************************************************)
lit_for == <<"f", "o", "r">>
lit_int == <<"i", "n", "t">>
lit_size_t == <<"s", "i", "z", "e", "_", "t">>
lit_size_call == <<".", "s", "i", "z", "e", "(", ")">>
lit_map == <<"m", "a", "p", "<">>
lit_std_map == <<"s", "t", "d", ":", ":", "m", "a", "p", "<">>
lit_std_vector == <<"s", "t", "d", ":", ":", "v", "e", "c", "t", "o", "r", "<">>
lit_push_back == <<".", "p", "u", "s", "h", "_", "b", "a", "c", "k">>
lit_std == <<"s", "t", "d", ":", ":">>
lit_make_pair == <<"m", "a", "k", "e", "_", "p", "a", "i", "r">>

\* for\s*\(\s*(int|size_t)\s+\w+\s*=\s*0\s*;\s*\w+\s*<\s*\w+\.size\(\)\s*;
RangeForPattern(t, i) ==
    LET p1 == Many(t, Lit(t, Many(t, Lit(t, i, lit_for), Space), <<"(">>), Space)
        p2 == IF Lit(t, p1, lit_int) # 0 THEN Lit(t, p1, lit_int) ELSE Lit(t, p1, lit_size_t)
        p3 == Many(t, Many1(t, Many1(t, p2, Space), Word), Space)
        p4 == Many(t, Lit(t, p3, <<"=">>), Space)
        p5 == Many(t, Lit(t, p4, <<"0">>), Space)
        p6 == Many(t, Lit(t, p5, <<";">>), Space)
        p7 == Many(t, Many1(t, p6, Word), Space)
        p8 == Many(t, Lit(t, p7, <<"<">>), Space)
        p9 == Lit(t, Many1(t, p8, Word), lit_size_call)
    IN  Lit(t, Many(t, p9, Space), <<";">>)

\* for\s*\(
LoopHeader(t, i) == Lit(t, Many(t, Lit(t, i, lit_for), Space), <<"(">>)

\* (?:map|std::map)<
MapDecl(t, i) == IF Lit(t, i, lit_map) # 0 THEN Lit(t, i, lit_map) ELSE Lit(t, i, lit_std_map)

\* \.push_back\(
PushBackCall(t, i) == Lit(t, Lit(t, i, lit_push_back), <<"(">>)

\* The start positions of a match in t, the end of the text included.
Positions(t) == 1..(Len(t) + 1)

\* for\s*\(.*\)\s*\{[^{}]{0,window}<rest> under re.DOTALL, where rest[j] is
\* the position after the match of <rest> at j, or 0.  ".*" is greedy:
\* the match closes at the last ")" from which the rest matches, and the
\* brace-free run is the longest one (at most window symbols) that Rest
\* follows.
LoopBodyPattern(rest, t, i, window) ==
    LET p == LoopHeader(t, i)
        Brace(q) == Lit(t, Many(t, q + 1, Space), <<"{">>)
        Runs(j) == {k \in 0..window :
                       /\ j + k <= Len(t) + 1
                       /\ \A m \in j..(j + k - 1) : t[m] \notin {"{", "}"}
                       /\ rest[j + k] # 0}
        Closers == {q \in p..Len(t) :
                       t[q] = ")" /\ Brace(q) # 0 /\ Runs(Brace(q)) # {}}
    IN  IF p = 0 \/ Closers = {} THEN 0
        ELSE LET j == Brace(Max(Closers)) IN rest[j + Max(Runs(j))]

NestedWindow == 120

MapWindow == 200

PushBackWindow == 180

\* for\s*\(.*\)\s*\{[^{}]{0,120}for\s*\(
NestedLoopPattern(t, i) == LoopBodyPattern([j \in Positions(t) |-> LoopHeader(t, j)], t, i, NestedWindow)

\* for\s*\(.*\)\s*\{[^{}]{0,200}(?:map|std::map)<
MapInLoopPattern(t, i) == LoopBodyPattern([j \in Positions(t) |-> MapDecl(t, j)], t, i, MapWindow)

\* for\s*\(.*\)\s*\{[^{}]{0,180}\.push_back\(
PushBackInLoopPattern(t, i) ==
    LoopBodyPattern([j \in Positions(t) |-> PushBackCall(t, j)], t, i, PushBackWindow)

\* std::vector<[^>]+>\s+\w+\s*;
VectorDeclPattern(t, i) ==
    LET p1 == Lit(t, i, lit_std_vector)
        p2 == IF p1 # 0 /\ At(t, p1) \notin {">", ""} THEN Until(t, p1, {">"}) ELSE 0
        p3 == Many(t, Many1(t, Many1(t, Lit(t, p2, <<">">>), Space), Word), Space)
    IN  Lit(t, p3, <<";">>)

\* \.push_back\s*\(\s*(?:std::)?make_pair\s*\(
EmplacePattern(t, i) ==
    LET p1 == Many(t, Lit(t, Many(t, Lit(t, i, lit_push_back), Space), <<"(">>), Space)
        p2 == IF Lit(t, p1, lit_std) # 0 THEN Lit(t, p1, lit_std) ELSE p1
    IN  Lit(t, Many(t, Lit(t, p2, lit_make_pair), Space), <<"(">>)

\* A scan of a text with one of the patterns: matches[i] is the position
\* after the match that starts at i, or 0.
\* re.search: the pattern matches somewhere.
search(matches) == \E i \in DOMAIN matches : matches[i] # 0

\* re.finditer: m.start() (0-based) of the leftmost non-overlapping matches
\* from position i on, in text order.  After a match the scan resumes at its
\* end (one symbol further after an empty match).
RECURSIVE finditer(_, _)
finditer(matches, i) ==
    LET hits == {j \in DOMAIN matches : j >= i /\ matches[j] # 0}
        s == Min(hits)
    IN  IF hits = {} THEN <<>>
        ELSE <<s - 1>> \o finditer(matches, IF matches[s] = s THEN s + 1 ELSE matches[s])

(***************************************************************************)
(* The rule engine                                                         *)
(***************************************************************************)
\* Optional[int]: <<>> is None, <<n>> is n.
NoLine == <<>>

RuleResult(rule, message, line, severity) ==
    [rule |-> rule, message |-> message, line |-> line, severity |-> severity]

\* code[:match_start].count("\n") + 1
line_no(code, match_start) ==
    Cardinality({k \in 1..match_start : code[k] = "\n"}) + 1

\* One RuleResult per match of a scan, in match order.
PerMatch(matches, code, rule, message, severity) ==
    LET starts == finditer(matches, 1)
    IN  [k \in 1..Len(starts) |->
            RuleResult(rule, message, <<line_no(code, starts[k])>>, severity)]

DefaultRuleConfig ==
    [enable_dsa_rules |-> TRUE, enable_style_rules |-> TRUE, max_nested_loops |-> 2,
     prefer_unordered_map_for_count |-> TRUE, suggest_reserve_on_vectors |-> TRUE,
     suggest_emplace_back |-> TRUE, prefer_range_for |-> TRUE]

\* The conditions under which each rule runs.
RangeForEnabled(cfg) == cfg.enable_style_rules /\ cfg.prefer_range_for

\* The threshold test off by one.
NestedLoopsEnabledAtZero(cfg) == cfg.enable_dsa_rules /\ cfg.max_nested_loops >= 0

NestedLoopsEnabled(cfg) == cfg.enable_dsa_rules /\ cfg.max_nested_loops > 0

MapCountEnabled(cfg) == cfg.enable_dsa_rules /\ cfg.prefer_unordered_map_for_count

ReserveEnabled(cfg) == cfg.enable_style_rules /\ cfg.suggest_reserve_on_vectors

EmplaceEnabled(cfg) == cfg.enable_style_rules /\ cfg.suggest_emplace_back

run_builtin_rules(code, cfg) ==
    (IF RangeForEnabled(cfg)
     THEN PerMatch([i \in Positions(code) |-> RangeForPattern(code, i)], code, "prefer_range_for",
                   "Use range-based for when iterating entire container.", "info")
     ELSE <<>>)
    \o
    (IF NestedLoopsEnabled(cfg)
     THEN PerMatch([i \in Positions(code) |-> NestedLoopPattern(code, i)], code, "nested_loops",
                   "Nested loop detected; if O(n^2) consider hashing, prefix sums, or two-pointer.",
                   "warning")
     ELSE <<>>)
    \o
    (IF MapCountEnabled(cfg)
     THEN PerMatch([i \in Positions(code) |-> MapInLoopPattern(code, i)], code,
                   "prefer_unordered_map_for_count",
                   "Counting frequencies? Prefer std::unordered_map for average O(1) access.",
                   "info")
     ELSE <<>>)
    \o
    (IF /\ ReserveEnabled(cfg)
        /\ search([i \in Positions(code) |-> VectorDeclPattern(code, i)])
        /\ search([i \in Positions(code) |-> PushBackInLoopPattern(code, i)])
     THEN <<RuleResult("vector_reserve",
                       "Vector push_back in loop: call v.reserve(n) when size known to avoid re-allocations.",
                       NoLine, "info")>>
     ELSE <<>>)
    \o
    (IF EmplaceEnabled(cfg)
     THEN PerMatch([i \in Positions(code) |-> EmplacePattern(code, i)], code, "emplace_back",
                   "Use emplace_back instead of push_back(make_pair(...)).", "info")
     ELSE <<>>)

(***************************************************************************)
(* Code samples                                                            *)
(***************************************************************************)
CodeMain ==
    <<"i", "n", "t", " ", "m", "a", "i", "n", "(", ")", "{", "r", "e", "t", "u", "r", "n", " ",
    "0", ";", "}">>

CodeNested ==
    <<"f", "o", "r", "(", "i", "n", "t", " ", "i", "=", "0", ";", "i", "<", "v", ".", "s", "i",
    "z", "e", "(", ")", ";", "i", "+", "+", ")", "{", " ", "f", "o", "r", "(", "i", "n", "t",
    " ", "j", "=", "0", ";", "j", "<", "n", ";", "j", "+", "+", ")", "{", "}", " ", "}">>

CodeMapCount ==
    <<"i", "n", "t", " ", "n", ";", "\n", "f", "o", "r", " ", "(", "s", "i", "z", "e", "_", "t",
    " ", "i", " ", "=", " ", "0", ";", " ", "i", " ", "<", " ", "a", ".", "s", "i", "z", "e",
    "(", ")", ";", " ", "+", "+", "i", ")", " ", "{", "\n", " ", "s", "t", "d", ":", ":", "m",
    "a", "p", "<", "i", "n", "t", ",", "i", "n", "t", ">", " ", "m", ";", "\n", "}">>

CodeVector ==
    <<"s", "t", "d", ":", ":", "v", "e", "c", "t", "o", "r", "<", "i", "n", "t", ">", " ", "v",
    ";", "\n", "f", "o", "r", "(", "i", "n", "t", " ", "i", "=", "0", ";", "i", "<", "n", ";",
    "i", "+", "+", ")", "{", " ", "v", ".", "p", "u", "s", "h", "_", "b", "a", "c", "k", "(",
    "i", ")", ";", " ", "}", "\n", "p", ".", "p", "u", "s", "h", "_", "b", "a", "c", "k", "(",
    "m", "a", "k", "e", "_", "p", "a", "i", "r", "(", "1", ",", "2", ")", ")", ";">>

CodeTwoLoops ==
    <<"f", "o", "r", "(", "i", "n", "t", " ", "i", "=", "0", ";", "i", "<", "a", ".", "s", "i",
    "z", "e", "(", ")", ";", "i", "+", "+", ")", "{", "}", "\n", "\n", "f", "o", "r", "(", "i",
    "n", "t", " ", "j", "=", "0", ";", "j", "<", "b", ".", "s", "i", "z", "e", "(", ")", ";",
    "j", "+", "+", ")", "{", "}">>

CodePairs ==
    <<"x", ".", "p", "u", "s", "h", "_", "b", "a", "c", "k", " ", "(", "s", "t", "d", ":", ":",
    "m", "a", "k", "e", "_", "p", "a", "i", "r", "(", "a", ",", "b", ")", ")", ";", "\n", "y",
    ".", "p", "u", "s", "h", "_", "b", "a", "c", "k", "(", "m", "a", "k", "e", "_", "p", "a",
    "i", "r", "(", "c", ",", "d", ")", ")", ";">>

CodeAll ==
    <<"s", "t", "d", ":", ":", "v", "e", "c", "t", "o", "r", "<", "P", ">", " ", "v", " ", ";",
    "\n", "f", "o", "r", "(", "i", "n", "t", " ", "i", "=", "0", ";", "i", "<", "s", ".", "s",
    "i", "z", "e", "(", ")", ";", "i", "+", "+", ")", "{", "\n", " ", "f", "o", "r", "(", ";",
    ";", ")", "{", " ", "m", "a", "p", "<", "i", "n", "t", ",", "i", "n", "t", ">", " ", "c",
    ";", " ", "v", ".", "p", "u", "s", "h", "_", "b", "a", "c", "k", "(", "m", "a", "k", "e",
    "_", "p", "a", "i", "r", "(", "i", ",", "i", ")", ")", ";", " ", "}", "\n", "}">>

CodeEmpty ==
    <<>>

Blanks(n) == [k \in 1..n |-> " "]

\* An inner loop header n blanks into the body of an outer loop.
CodeInnerLoopAt(n) == <<"f", "o", "r", "(", ";", ";", ")", "{">> \o Blanks(n) \o <<"f", "o", "r", "(">>


(***************************************************************************)
(* Python values: None, bool, int, str, list and dict, as json.loads and   *)
(* the handler produce them.  A dict keeps its keys in insertion order.    *)
(***************************************************************************)
None == [t |-> "NoneType"]

PyBool(b) == [t |-> "bool", v |-> b]

PyInt(n) == [t |-> "int", v |-> n]

PyStr(s) == [t |-> "str", v |-> s]

PyList(a) == [t |-> "list", v |-> a]

PyDict(keys, values) == [t |-> "dict", k |-> keys, v |-> values]

EmptyDict == PyDict(<<>>, <<>>)

isinstance(x, type) == x.t = type

\* bool(x)
Truthy(x) ==
    CASE x.t = "NoneType" -> FALSE
      [] x.t = "bool" -> x.v
      [] x.t = "int" -> x.v # 0
      [] x.t = "dict" -> x.k # <<>>
      [] OTHER -> x.v # <<>>

\* a or b
Or(a, b) == IF Truthy(a) THEN a ELSE b

HasKey(d, key) == \E n \in 1..Len(d.k) : d.k[n] = key

\* d.get(key, default), for a dict d
get(d, key, default) ==
    IF HasKey(d, key) THEN d.v[CHOOSE n \in 1..Len(d.k) : d.k[n] = key] ELSE default

\* d[key] = value
setitem(d, key, value) ==
    IF HasKey(d, key)
    THEN PyDict(d.k, [n \in 1..Len(d.k) |-> IF d.k[n] = key THEN value ELSE d.v[n]])
    ELSE PyDict(Append(d.k, key), Append(d.v, value))

(***************************************************************************)
(* str methods                                                             *)
(***************************************************************************)
\* s.strip()
strip(s) ==
    LET keep == {n \in 1..Len(s) : s[n] \notin Space}
    IN  IF keep = {} THEN <<>> ELSE SubSeq(s, Min(keep), Max(keep))

\* s.startswith(prefix)
startswith(s, prefix) == Lit(s, 1, prefix) # 0

\* sub in s
contains(s, sub) == \E n \in 1..(Len(s) + 1) : Lit(s, n, sub) # 0

\* s.find(sub) and s.rfind(sub): 0-based, -1 when absent
find(s, sub) ==
    IF contains(s, sub) THEN Min({n \in 1..(Len(s) + 1) : Lit(s, n, sub) # 0}) - 1 ELSE -1

rfind(s, sub) ==
    IF contains(s, sub) THEN Max({n \in 1..(Len(s) + 1) : Lit(s, n, sub) # 0}) - 1 ELSE -1

\* s[a:b] for 0 <= a
slice(s, a, b) == SubSeq(s, a + 1, IF b > Len(s) THEN Len(s) ELSE b)

\* s.split(sep, maxsplit)
RECURSIVE split(_, _, _)
split(s, sep, maxsplit) ==
    IF maxsplit = 0 \/ ~contains(s, sep) THEN <<s>>
    ELSE LET at == find(s, sep)
         IN  <<slice(s, 0, at)>> \o split(slice(s, at + Len(sep), Len(s)), sep, maxsplit - 1)

\* sep.join(parts)
RECURSIVE join(_, _)
join(sep, parts) ==
    IF parts = <<>> THEN <<>>
    ELSE IF Len(parts) = 1 THEN parts[1]
    ELSE parts[1] \o sep \o join(sep, Tail(parts))

(***************************************************************************)
(* json.dumps and json.loads, on the values above.  Not modelled: floats,  *)
(* NaN and Infinity, the escapes \b \f \u, and non-ASCII text.             *)
(***************************************************************************)
DigitSymbol(d) == CASE d = 0 -> "0" [] d = 1 -> "1" [] d = 2 -> "2" [] d = 3 -> "3"
                    [] d = 4 -> "4" [] d = 5 -> "5" [] d = 6 -> "6" [] d = 7 -> "7"
                    [] d = 8 -> "8" [] d = 9 -> "9"

DigitValue(c) == CHOOSE d \in 0..9 : DigitSymbol(d) = c

RECURSIVE NatText(_)
NatText(n) == IF n < 10 THEN <<DigitSymbol(n)>> ELSE NatText(n \div 10) \o <<DigitSymbol(n % 10)>>

IntText(n) == IF n < 0 THEN <<"-">> \o NatText(-n) ELSE NatText(n)

EscapedSymbols == {"\"", "\\", "\n", "\t", "\r"}

\* The text of s inside a JSON string: the symbols up to the next one that
\* needs an escape, its escape, and so on.
RECURSIVE Escaped(_)
Escaped(s) ==
    LET j == Until(s, 1, EscapedSymbols)
    IN  IF j > Len(s) THEN s
        ELSE SubSeq(s, 1, j - 1)
             \o (CASE s[j] = "\"" -> <<"\\", "\"">>
                   [] s[j] = "\\" -> <<"\\", "\\">>
                   [] s[j] = "\n" -> <<"\\", "n">>
                   [] s[j] = "\t" -> <<"\\", "t">>
                   [] s[j] = "\r" -> <<"\\", "r">>)
             \o Escaped(SubSeq(s, j + 1, Len(s)))

Quoted(s) == <<"\"">> \o Escaped(s) \o <<"\"">>

RECURSIVE json_dumps(_)
json_dumps(x) ==
    CASE x.t = "NoneType" -> <<"n", "u", "l", "l">>
      [] x.t = "bool" -> IF x.v THEN <<"t", "r", "u", "e">> ELSE <<"f", "a", "l", "s", "e">>
      [] x.t = "int" -> IntText(x.v)
      [] x.t = "str" -> Quoted(x.v)
      [] x.t = "list" ->
            <<"[">> \o join(<<",", " ">>, [n \in 1..Len(x.v) |-> json_dumps(x.v[n])]) \o <<"]">>
      [] x.t = "dict" ->
            <<"{">> \o join(<<",", " ">>,
                            [n \in 1..Len(x.k) |->
                                Quoted(x.k[n]) \o <<":", " ">> \o json_dumps(x.v[n])])
            \o <<"}">>

\* A decoding step: the value and the position after it, or a failure.
Decoded(value, p) == [ok |-> TRUE, v |-> value, p |-> p]

Undecodable == [ok |-> FALSE, v |-> None, p |-> 0]

\* The body of a string from position i (after the opening quote); acc is
\* what was decoded so far.  The scan runs to the next quote, backslash or
\* control character; a raw control character ends the decoding.
RECURSIVE ScanString(_, _, _)
ScanString(t, i, acc) ==
    LET j == Until(t, i, EscapedSymbols)
        c == At(t, j)
        e == At(t, j + 1)
        got == acc \o SubSeq(t, i, j - 1)
    IN  CASE c = "\"" -> Decoded(got, j + 1)
          [] c \in {"", "\n", "\t", "\r"} -> Undecodable
          [] c = "\\" ->
                (CASE e \in {"\"", "\\", "/"} -> ScanString(t, j + 2, Append(got, e))
                   [] e = "n" -> ScanString(t, j + 2, Append(got, "\n"))
                   [] e = "t" -> ScanString(t, j + 2, Append(got, "\t"))
                   [] e = "r" -> ScanString(t, j + 2, Append(got, "\r"))
                   [] OTHER -> Undecodable)

RECURSIVE DigitsValue(_)
DigitsValue(ds) ==
    IF ds = <<>> THEN 0 ELSE 10 * DigitsValue(SubSeq(ds, 1, Len(ds) - 1)) + DigitValue(ds[Len(ds)])

\* -?(0|[1-9]\d*)
ScanNumber(t, i) ==
    LET neg == At(t, i) = "-"
        d == IF neg THEN i + 1 ELSE i
        e == IF At(t, d) = "0" THEN d + 1 ELSE Many(t, d, Digit)
    IN  IF At(t, d) \notin Digit THEN Undecodable
        ELSE Decoded(PyInt((IF neg THEN -1 ELSE 1) * DigitsValue(SubSeq(t, d, e - 1))), e)

RECURSIVE ScanValue(_, _), ScanItems(_, _, _), ScanPairs(_, _, _)

\* The value that starts at position i.
ScanValue(t, i) ==
    LET c == At(t, i)
    IN  CASE c = "\"" ->
                LET s == ScanString(t, i + 1, <<>>)
                IN  IF s.ok THEN Decoded(PyStr(s.v), s.p) ELSE Undecodable
          [] c = "{" ->
                LET p == Many(t, i + 1, Space)
                IN  IF At(t, p) = "}" THEN Decoded(EmptyDict, p + 1)
                    ELSE ScanPairs(t, p, EmptyDict)
          [] c = "[" ->
                LET p == Many(t, i + 1, Space)
                IN  IF At(t, p) = "]" THEN Decoded(PyList(<<>>), p + 1)
                    ELSE ScanItems(t, p, <<>>)
          [] Lit(t, i, <<"n", "u", "l", "l">>) # 0 -> Decoded(None, i + 4)
          [] Lit(t, i, <<"t", "r", "u", "e">>) # 0 -> Decoded(PyBool(TRUE), i + 4)
          [] Lit(t, i, <<"f", "a", "l", "s", "e">>) # 0 -> Decoded(PyBool(FALSE), i + 5)
          [] c = "-" \/ c \in Digit -> ScanNumber(t, i)
          [] OTHER -> Undecodable

\* The items of a list from position i (at an item), up to the closing "]".
ScanItems(t, i, acc) ==
    LET item == ScanValue(t, i)
        p == Many(t, item.p, Space)
    IN  IF ~item.ok THEN Undecodable
        ELSE IF At(t, p) = "]" THEN Decoded(PyList(Append(acc, item.v)), p + 1)
        ELSE IF At(t, p) = "," THEN ScanItems(t, Many(t, p + 1, Space), Append(acc, item.v))
        ELSE Undecodable

\* The "key": value pairs of an object from position i (at a key), up to "}".
ScanPairs(t, i, acc) ==
    LET key == IF At(t, i) = "\"" THEN ScanString(t, i + 1, <<>>) ELSE Undecodable
        colon == Many(t, key.p, Space)
        value == IF key.ok /\ At(t, colon) = ":"
                 THEN ScanValue(t, Many(t, colon + 1, Space))
                 ELSE Undecodable
        p == Many(t, value.p, Space)
    IN  IF ~value.ok THEN Undecodable
        ELSE IF At(t, p) = "}" THEN Decoded(setitem(acc, key.v, value.v), p + 1)
        ELSE IF At(t, p) = "," THEN ScanPairs(t, Many(t, p + 1, Space), setitem(acc, key.v, value.v))
        ELSE Undecodable

\* json.loads(t): [ok, v]; ok is FALSE where json.loads raises.
json_loads(t) ==
    LET r == ScanValue(t, Many(t, 1, Space))
    IN  IF r.ok /\ Many(t, r.p, Space) = Len(t) + 1
        THEN [ok |-> TRUE, v |-> r.v]
        ELSE [ok |-> FALSE, v |-> None]

(***************************************************************************)
(* The /refactor handler after the outbound call returned 200              *)
(***************************************************************************)
key_choices == <<"c","h","o","i","c","e","s">>

key_message == <<"m","e","s","s","a","g","e">>

key_content == <<"c","o","n","t","e","n","t">>

key_text == <<"t","e","x","t">>

key_suggestions == <<"s","u","g","g","e","s","t","i","o","n","s">>

key_optimized_code == <<"o","p","t","i","m","i","z","e","d","_","c","o","d","e">>

Fence == <<BT, BT, BT>>

\* An exception that refactor does not catch.
Raised == [raised |-> TRUE, v |-> None]

Returned(x) == [raised |-> FALSE, v |-> x]

\* choices[0].get("message", {}).get("content") or choices[0].get("text");
\* None when a lookup raises (choices[0] or its message is not a dict).
FirstChoiceContent(first) ==
    IF ~isinstance(first, "dict") THEN None
    ELSE IF ~isinstance(get(first, key_message, EmptyDict), "dict") THEN None
    ELSE Or(get(get(first, key_message, EmptyDict), key_content, None),
            get(first, key_text, None))

\* content after the try block, given choices = data.get("choices").
ChoicesContent(choices) ==
    IF Truthy(choices) /\ isinstance(choices, "list")
    THEN FirstChoiceContent(choices.v[1])
    ELSE None

\* content after the try block: it stays None when data is no dict.
ContentFromChoices(data) ==
    IF isinstance(data, "dict") THEN ChoicesContent(get(data, key_choices, None)) ELSE None

\* if not content: content = data.get("content") or data.get("text") or
\* json.dumps(data); data.get raises on a payload that is no dict.
ContentOrFallback(data, content) ==
    IF Truthy(content) THEN Returned(content)
    ELSE IF ~isinstance(data, "dict") THEN Raised
    ELSE Returned(Or(Or(get(data, key_content, None), get(data, key_text, None)),
                     PyStr(json_dumps(data))))

\* content as line 212 reads it.
ContentOf(data) == ContentOrFallback(data, ContentFromChoices(data))

\* block.split("\n", 1)[1] if "\n" in block else block
AfterTagLine(block) ==
    IF contains(block, <<"\n">>) THEN split(block, <<"\n">>, 1)[2] ELSE block

\* The fence handling of lines 213-218 on the stripped text.
StripFence(stripped) ==
    IF startswith(stripped, Fence) THEN AfterTagLine(split(stripped, Fence, 2)[2]) ELSE stripped

\* text: content.strip(), and the inside of the first fenced block when the
\* text starts with a fence.
CleanText(content) == StripFence(strip(content))

\* The except branch of lines 224-230: the first "{" to the last "}".
ParseBraceSlice(t, s, e) ==
    IF s # -1 /\ e # -1 /\ e > s THEN json_loads(slice(t, s, e + 1)) ELSE [ok |-> FALSE, v |-> None]

ValueOrNone(loaded) == IF loaded.ok THEN loaded.v ELSE None

ParseFallback(t, direct) ==
    IF direct.ok THEN direct.v
    ELSE ValueOrNone(ParseBraceSlice(t, find(t, <<"{">>), rfind(t, <<"}">>)))

\* parsed: json.loads(text), else json.loads of the first "{" to the last
\* "}", else None.
ParseModelText(t) == ParseFallback(t, json_loads(t))

\* The rendering without the message.
RenderFindingWithoutMessage(f) == PyStr(<<"[rule:", f.rule, "]">>)

\* f"[rule:{f['rule']}] {f['message']}"
RenderFinding(f) == PyStr(<<"[rule:", f.rule, "] ", f.message>>)

RenderFindings(findings) == [n \in 1..Len(findings) |-> RenderFinding(findings[n])]

\* What one request ends in: the terminal state, the HTTP response and the
\* handler's local text (None when it was never assigned).
Outcome(state, status, body, t) ==
    [terminal |-> state, status |-> status, body |-> body, text |-> t]

\* An uncaught exception: the framework answers 500.
Unhandled(t) == Outcome("UNHANDLED_EXCEPTION", 500, [detail |-> "Internal Server Error"], t)

NoCredentialBody(code, findings) ==
    [ok |-> FALSE,
     error |-> "OPENROUTER_API_KEY missing in .env",
     suggestions |-> RenderFindings(findings),
     optimized_code |-> PyStr(code),
     rules_findings |-> findings]

\* The failure body with the findings left out.
ParseFailedBodyWithoutFindings(t, data, findings) ==
    [ok |-> FALSE,
     error |-> "Model JSON parse failed",
     model_text |-> PyStr(t),
     raw |-> data,
     rules_findings |-> <<>>]

ParseFailedBody(t, data, findings) ==
    [ok |-> FALSE,
     error |-> "Model JSON parse failed",
     model_text |-> PyStr(t),
     raw |-> data,
     rules_findings |-> findings]

\* merged_suggestions: list + list
MergeSuggestions(findings, suggestions) == RenderFindings(findings) \o suggestions.v

SuccessBody(code, findings, suggestions, optimized_code) ==
    [ok |-> TRUE,
     suggestions |-> MergeSuggestions(findings, suggestions),
     optimized_code |-> Or(optimized_code, PyStr(code)),
     rules_findings |-> findings]

\* Lines 239-246; list + suggestions raises unless suggestions is a list.
Merge(code, findings, t, suggestions, optimized_code) ==
    IF ~isinstance(suggestions, "list") THEN Unhandled(PyStr(t))
    ELSE Outcome("SUCCESS", 200, SuccessBody(code, findings, suggestions, optimized_code),
                 PyStr(t))

\* Lines 232-236; parsed.get raises unless parsed is a dict.
HandleParsed(code, findings, data, t, parsed) ==
    IF ~Truthy(parsed)
    THEN Outcome("EXTRACT_FAILURE", 200, ParseFailedBody(t, data, findings), PyStr(t))
    ELSE IF ~isinstance(parsed, "dict") THEN Unhandled(PyStr(t))
    ELSE Merge(code, findings, t, get(parsed, key_suggestions, PyList(<<>>)),
               get(parsed, key_optimized_code, PyStr(<<>>)))

HandleText(code, findings, data, t) ==
    HandleParsed(code, findings, data, t, ParseModelText(t))

\* Line 212 on: content.strip() raises unless content is a str.
HandleContent(code, findings, data, content) ==
    IF content.raised THEN Unhandled(None)
    ELSE IF ~isinstance(content.v, "str") THEN Unhandled(None)
    ELSE HandleText(code, findings, data, CleanText(content.v.v))

\* Lines 201-246, given data = resp.json().
HandlePayload(code, findings, data) ==
    HandleContent(code, findings, data, ContentOf(data))

(***************************************************************************)
(* Inputs                                                                  *)
(***************************************************************************)
CodeSamples ==
    {CodeMain, CodeNested, CodeMapCount, CodeVector, CodeTwoLoops, CodePairs, CodeAll, CodeEmpty,
     CodeInnerLoopAt(NestedWindow), CodeInnerLoopAt(NestedWindow + 1)}

\* Every RuleConfig over the toggles and three thresholds.
AllConfigs ==
    [enable_dsa_rules : BOOLEAN, enable_style_rules : BOOLEAN, max_nested_loops : {-1, 0, 2},
     prefer_unordered_map_for_count : BOOLEAN, suggest_reserve_on_vectors : BOOLEAN,
     suggest_emplace_back : BOOLEAN, prefer_range_for : BOOLEAN]

\* Optional[RuleConfig]: <<>> is None.
RequestRules ==
    {<<>>,
     <<[DefaultRuleConfig EXCEPT !.enable_dsa_rules = FALSE]>>,
     <<[DefaultRuleConfig EXCEPT !.prefer_range_for = FALSE, !.max_nested_loops = 0]>>}

RequestCodes == {CodeMain, CodeNested, CodeAll, CodeEmpty}

Requests == [code : RequestCodes, rules : RequestRules]

\* The values OPENROUTER_API_KEY can have in the environment.
KeyValues == {None, PyStr(<<>>), PyStr(<<"sk-or-v1">>)}

MaxSuggestions == 2

SuggestionTexts == {<<"u", "s", "e", " ", "a", "u", "t", "o">>, <<"a", "d", "d", " ">> \o Fence}

SuggestionLists ==
    UNION {[1..n -> {PyStr(s) : s \in SuggestionTexts}] : n \in 0..MaxSuggestions}

OptimizedTexts == {<<>>, <<"i", "n", "t", " ", "x", ";">>, <<"f", "(", ")", "{", "\n", "}">>}

\* The objects the model is asked for: {suggestions, optimized_code}.
ResultObjects ==
    {PyDict(<<key_suggestions, key_optimized_code>>, <<PyList(s), PyStr(c)>>) :
        s \in SuggestionLists, c \in OptimizedTexts}

lang_json == <<"j", "s", "o", "n">>

\* T inside a fence with a language tag line and a trailing fence.
Fenced(T) == Fence \o lang_json \o <<"\n">> \o T \o <<"\n">> \o Fence

\* T between leading and trailing prose.
InProse(T) == <<"H", "e", "r", "e", ":", "\n">> \o T \o <<"\n", "T", "h", "a", "n", "k", "s", "!">>

\* Objects of other shapes.
OtherObjects ==
    {EmptyDict,
     PyDict(<<<<"n", "o", "t", "e">>>>, <<PyInt(1)>>),
     PyDict(<<key_optimized_code>>, <<PyStr(<<"y", ";">>)>>),
     PyDict(<<key_suggestions>>, <<PyList(<<PyStr(<<"s">>)>>)>>),
     PyDict(<<key_suggestions, key_optimized_code>>, <<PyStr(<<"s">>), PyStr(<<"y", ";">>)>>),
     PyDict(<<key_suggestions, key_optimized_code>>, <<None, PyStr(<<"y", ";">>)>>),
     PyDict(<<key_suggestions, key_optimized_code>>, <<PyList(<<PyInt(7)>>), None>>),
     PyDict(<<key_suggestions, key_optimized_code>>, <<PyList(<<>>), PyInt(0)>>)}

\* Texts that are no object.
OtherTexts ==
    {<<>>, <<" ", "\n">>, <<"s", "o", "r", "r", "y">>, <<"}", " ", "{">>, <<"{", "x", "}">>,
     Fence, Fence \o lang_json,
     <<"[", "1", "]">>, <<"5">>, <<"0">>, <<"n", "u", "l", "l">>, <<"\"", "h", "i", "\"">>}

ModelTexts ==
    {json_dumps(o) : o \in ResultObjects \cup OtherObjects}
    \cup {Fenced(json_dumps(o)) : o \in ResultObjects}
    \cup {InProse(json_dumps(o)) : o \in ResultObjects}
    \cup {Fence \o json_dumps(o) \o Fence : o \in OtherObjects}
    \cup OtherTexts

\* The provider's payload shapes around a content value c.
ChatPayload(c) ==
    PyDict(<<key_choices>>, <<PyList(<<PyDict(<<key_message>>, <<PyDict(<<key_content>>, <<c>>)>>)>>)>>)

CompletionPayload(c) == PyDict(<<key_choices>>, <<PyList(<<PyDict(<<key_text>>, <<c>>)>>)>>)

FlatPayload(key, c) == PyDict(<<key>>, <<c>>)

SomeObject ==
    PyDict(<<key_suggestions, key_optimized_code>>,
           <<PyList(<<PyStr(<<"u", "s", "e", " ", "a", "u", "t", "o">>)>>),
             PyStr(<<"i", "n", "t", " ", "x", ";">>)>>)

Payloads ==
    {ChatPayload(PyStr(T)) : T \in ModelTexts}
    \cup {ChatPayload(c) : c \in {None, PyInt(5), PyList(<<PyStr(<<"h", "i">>)>>)}}
    \cup {CompletionPayload(PyStr(T)) : T \in {json_dumps(SomeObject), <<"s", "o", "r", "r", "y">>}}
    \cup {FlatPayload(k, PyStr(json_dumps(SomeObject))) : k \in {key_content, key_text}}
    \cup {EmptyDict, SomeObject, PyList(<<>>), PyList(<<PyInt(1)>>), PyStr(<<"o", "k">>),
          PyDict(<<key_choices>>, <<PyList(<<>>)>>),
          PyDict(<<key_choices>>, <<PyList(<<PyStr(<<"x">>)>>)>>),
          PyDict(<<key_choices>>, <<PyList(<<PyDict(<<key_message>>, <<None>>)>>)>>),
          PyDict(<<<<"e", "r", "r", "o", "r">>>>, <<PyStr(<<"r", "a", "t", "e">>)>>)}

\* resp.text of the replies: a serialised payload, or a body that is no JSON.
ReplyTexts == {json_dumps(d) : d \in Payloads} \cup {<<"<", "h", "t", "m", "l", ">">>}

StatusCodes == {200, 401, 500}

(***************************************************************************)
(* State                                                                   *)
(***************************************************************************)
NoRequest == [code |-> <<>>, rules |-> <<>>]

NoReply == [kind |-> "none", status_code |-> 0, text |-> <<>>]

NoResponse == [status |-> 0, body |-> <<>>]

Init ==
    /\ app = "importing"
    /\ environ \in KeyValues
    /\ pc = "IDLE"
    /\ req = NoRequest
    /\ rules_findings = <<>>
    /\ outbound = 0
    /\ upstream = NoReply
    /\ text = None
    /\ response = NoResponse

\* cfg = req.rules or RuleConfig()
Config(r) == IF r.rules = <<>> THEN DefaultRuleConfig ELSE r.rules[1]

(***************************************************************************)
(* Startup: main.py imports app.config, which raises without a key.        *)
(***************************************************************************)
Startup ==
    /\ app = "importing"
    /\ app' = IF Truthy(environ) THEN "running" ELSE "aborted"
    /\ UNCHANGED <<environ, pc, req, rules_findings, outbound, upstream, text, response>>

\* The process environment changes between requests; refactor reads it anew
\* on every request.
SetEnviron(value) ==
    /\ app = "running"
    /\ pc = "IDLE"
    /\ environ' = value
    /\ UNCHANGED <<app, pc, req, rules_findings, outbound, upstream, text, response>>

\* GET /ping
Ping ==
    /\ app = "running"
    /\ pc = "IDLE"
    /\ pc' = "PONG"
    /\ response' = [status |-> 200, body |-> [ok |-> TRUE, message |-> "pong"]]
    /\ UNCHANGED <<app, environ, req, rules_findings, outbound, upstream, text>>

\* POST /refactor up to the outbound call: the rules, then the credential.
Refactor(r) ==
    LET findings == run_builtin_rules(r.code, Config(r))
    IN  /\ app = "running"
        /\ pc = "IDLE"
        /\ req' = r
        /\ rules_findings' = findings
        /\ IF ~Truthy(environ)
           THEN /\ pc' = "NO_CREDENTIAL_EXIT"
                /\ response' = [status |-> 200, body |-> NoCredentialBody(r.code, findings)]
                /\ outbound' = 0
                /\ upstream' = NoReply
           ELSE /\ pc' = "CALLING_MODEL"
                /\ outbound' = outbound + 1
                /\ upstream' = [NoReply EXCEPT !.kind = "pending"]
                /\ UNCHANGED response
        /\ UNCHANGED <<app, environ, text>>

\* requests.post raises requests.RequestException.
TransportError ==
    /\ pc = "CALLING_MODEL"
    /\ pc' = "TRANSPORT_FAILURE"
    /\ upstream' = [upstream EXCEPT !.kind = "error"]
    /\ response' = [status |-> 502, body |-> [detail |-> <<"OpenRouter request error: ">>]]
    /\ UNCHANGED <<app, environ, req, rules_findings, outbound, text>>

\* Line 200 on: resp.json() raises on a body that is no JSON.
HandleDecoded(code, findings, data) ==
    IF data.ok THEN HandlePayload(code, findings, data.v) ELSE Unhandled(None)

\* The outcome of a reply: lines 197-246.
HandleReply(code, findings, status_code, body) ==
    IF status_code # 200
    THEN Outcome("BAD_STATUS", 502,
                 [detail |-> <<"OpenRouter ">> \o IntText(status_code) \o <<": ">> \o body],
                 None)
    ELSE HandleDecoded(code, findings, json_loads(body))

\* The handler ends with outcome out.
Finish(out) ==
    /\ pc' = out.terminal
    /\ text' = out.text
    /\ response' = [status |-> out.status, body |-> out.body]

\* requests.post returns.
Reply(status_code, body) ==
    /\ pc = "CALLING_MODEL"
    /\ upstream' = [kind |-> "reply", status_code |-> status_code, text |-> body]
    /\ Finish(HandleReply(req.code, rules_findings, status_code, body))
    /\ UNCHANGED <<app, environ, req, rules_findings, outbound>>

\* The response is sent; the next request starts from a fresh handler frame.
Respond ==
    /\ pc \notin {"IDLE", "CALLING_MODEL", "RULES_DONE"}
    /\ pc' = "IDLE"
    /\ req' = NoRequest
    /\ rules_findings' = <<>>
    /\ outbound' = 0
    /\ upstream' = NoReply
    /\ text' = None
    /\ response' = NoResponse
    /\ UNCHANGED <<app, environ>>

Next ==
    \/ Startup
    \/ \E value \in KeyValues : SetEnviron(value)
    \/ Ping
    \/ \E r \in Requests : Refactor(r)
    \/ TransportError
    \/ \E status_code \in StatusCodes, body \in ReplyTexts : Reply(status_code, body)
    \/ Respond

Spec == Init /\ [][Next]_vars

(***************************************************************************)
(* The rule engine alone, on every code sample and every configuration.    *)
(***************************************************************************)
RulesInit ==
    /\ app = "running"
    /\ environ = None
    /\ pc = "IDLE"
    /\ req \in [code : CodeSamples, rules : {<<cfg>> : cfg \in AllConfigs}]
    /\ rules_findings = <<>>
    /\ outbound = 0
    /\ upstream = NoReply
    /\ text = None
    /\ response = NoResponse

Evaluate ==
    /\ pc = "IDLE"
    /\ pc' = "RULES_DONE"
    /\ rules_findings' = run_builtin_rules(req.code, Config(req))
    /\ UNCHANGED <<app, environ, req, outbound, upstream, text, response>>

RulesNext == Evaluate

RulesSpec == RulesInit /\ [][RulesNext]_vars

(***************************************************************************)
(* Properties                                                              *)
(***************************************************************************)
\* A /refactor request that ended in a state of the documented state machine.
DocumentedTerminals ==
    {"NO_CREDENTIAL_EXIT", "TRANSPORT_FAILURE", "BAD_STATUS", "EXTRACT_FAILURE", "SUCCESS"}

\* A /refactor request that ended, in whatever way.
RefactorEnded == pc \in DocumentedTerminals \cup {"UNHANDLED_EXCEPTION"}

\* A /refactor request that returned a RefactorResult.
ResultReturned == pc \in {"NO_CREDENTIAL_EXIT", "EXTRACT_FAILURE", "SUCCESS"}

\* The outbound call returned status 200.
Replied200 == upstream.kind = "reply" /\ upstream.status_code = 200

\* The findings as "[rule:<id>] <message>" strings, in finding order.
Rendered(findings) ==
    [n \in 1..Len(findings) |-> PyStr(<<"[rule:", findings[n].rule, "] ", findings[n].message>>)]

\* The findings of the rule engine for the request at hand.
EngineFindings ==
    run_builtin_rules(req.code, IF req.rules = <<>> THEN DefaultRuleConfig ELSE req.rules[1])

\* The findings with the given rule id.
OfRule(findings, rule) == SelectSeq(findings, LAMBDA f : f.rule = rule)

\* The findings of every other rule, in order.
NotOfRule(findings, rule) == SelectSeq(findings, LAMBDA f : f.rule # rule)

\* C1: every POST /refactor request ends in one of NO_CREDENTIAL_EXIT,
\* TRANSPORT_FAILURE, BAD_STATUS, EXTRACT_FAILURE or SUCCESS; its status is
\* 502 exactly when the outbound call raised a transport error or returned
\* a non-200 status, and 200 in every other case.
C1_TerminalStatesAndStatus ==
    RefactorEnded =>
        /\ pc \in DocumentedTerminals
        /\ response.status =
              IF upstream.kind = "error"
                 \/ (upstream.kind = "reply" /\ upstream.status_code # 200)
              THEN 502 ELSE 200

\* C2: every RefactorResult returned carries an optimized_code that is set
\* and not empty: the model's code when the model supplied a usable
\* replacement, the input code otherwise, extraction failure included.
\* (Stated for a non-empty input code.)
C2_OptimizedCodeSetAndNonEmpty ==
    (ResultReturned /\ req.code # <<>>) =>
        /\ "optimized_code" \in DOMAIN response.body
        /\ Truthy(response.body.optimized_code)
        /\ pc # "SUCCESS" => response.body.optimized_code = PyStr(req.code)

\* C3: in every RefactorResult returned, rules_findings is exactly the
\* ordered findings of run_builtin_rules for the request's code and config,
\* whichever outcome was reached; and the rules have run by the time the
\* outbound call is made.
C3_FindingsAreTheRuleEngines ==
    /\ ResultReturned => response.body.rules_findings = EngineFindings
    /\ outbound > 0 => rules_findings = EngineFindings

\* A request whose rules fired and whose model text could not be parsed.
C3_Witness ==
    /\ pc = "EXTRACT_FAILURE"
    /\ Len(response.body.rules_findings) >= 2
    /\ outbound = 1

\* C4: with no model credential at request time, refactor makes no outbound
\* call and returns 200 with ok=false, a non-empty error, optimized_code
\* equal to the input code and suggestions equal to exactly the rendered
\* rule findings, in finding order.
C4_NoCredentialShortCircuit ==
    (~Truthy(environ) /\ (pc = "CALLING_MODEL" \/ RefactorEnded)) =>
        /\ pc = "NO_CREDENTIAL_EXIT"
        /\ outbound = 0
        /\ upstream.kind = "none"
        /\ response.status = 200
        /\ response.body.ok = FALSE
        /\ response.body.error # ""
        /\ response.body.optimized_code = PyStr(req.code)
        /\ response.body.suggestions = Rendered(EngineFindings)

\* A request served with the key set to the empty string, on code that
\* several rules flag.
C4_Witness ==
    /\ pc = "NO_CREDENTIAL_EXIT"
    /\ environ = PyStr(<<>>)
    /\ Len(response.body.suggestions) >= 2

\* C5: with the API key absent from the process configuration, startup
\* still completes; a missing key never aborts startup.
C5_MissingKeyDoesNotAbortStartup ==
    ~Truthy(environ) => app # "aborted"

\* C6: when extraction succeeds (the model text parsed to a non-empty
\* object), the result has ok=true, suggestions equal to the rendered rule
\* findings followed by the model's suggestions in the model's order, and
\* optimized_code equal to the model's code, or to the input code if the
\* model provided an empty one (read here as any value Python treats as
\* empty).
C6_SuccessfulExtractionIsMerged ==
    (Replied200 /\ text # None /\ isinstance(ParseModelText(text.v), "dict")
       /\ Truthy(ParseModelText(text.v))) =>
        /\ pc = "SUCCESS"
        /\ response.status = 200
        /\ response.body.ok = TRUE
        /\ response.body.suggestions =
              Rendered(EngineFindings)
              \o get(ParseModelText(text.v), key_suggestions, PyList(<<>>)).v
        /\ response.body.optimized_code =
              IF Truthy(get(ParseModelText(text.v), key_optimized_code, PyStr(<<>>)))
              THEN get(ParseModelText(text.v), key_optimized_code, PyStr(<<>>))
              ELSE PyStr(req.code)

\* C7: a disabled rule yields no finding with its id, for any code:
\* prefer_range_for, vector_reserve and emplace_back are absent when
\* enable_style_rules or their own toggle is false;
\* prefer_unordered_map_for_count when enable_dsa_rules or its toggle is
\* false; nested_loops when enable_dsa_rules is false or max_nested_loops is
\* not positive; and turning one rule off leaves the findings of the other
\* rules unchanged.
C7_DisabledRulesYieldNoFindings ==
    pc = "RULES_DONE" =>
        LET cfg == req.rules[1]
            Off(rule) == OfRule(rules_findings, rule) = <<>>
            Same(rule, without) ==
                NotOfRule(run_builtin_rules(req.code, without), rule)
                    = NotOfRule(rules_findings, rule)
        IN  /\ (~cfg.enable_style_rules \/ ~cfg.prefer_range_for) => Off("prefer_range_for")
            /\ (~cfg.enable_style_rules \/ ~cfg.suggest_reserve_on_vectors) => Off("vector_reserve")
            /\ (~cfg.enable_style_rules \/ ~cfg.suggest_emplace_back) => Off("emplace_back")
            /\ (~cfg.enable_dsa_rules \/ ~cfg.prefer_unordered_map_for_count)
                  => Off("prefer_unordered_map_for_count")
            /\ (~cfg.enable_dsa_rules \/ cfg.max_nested_loops <= 0) => Off("nested_loops")
            /\ Same("prefer_range_for", [cfg EXCEPT !.prefer_range_for = FALSE])
            /\ Same("vector_reserve", [cfg EXCEPT !.suggest_reserve_on_vectors = FALSE])
            /\ Same("emplace_back", [cfg EXCEPT !.suggest_emplace_back = FALSE])
            /\ Same("prefer_unordered_map_for_count",
                    [cfg EXCEPT !.prefer_unordered_map_for_count = FALSE])
            /\ Same("nested_loops", [cfg EXCEPT !.max_nested_loops = 0])

\* Code that all five rules flag, evaluated with the nested-loop threshold
\* at zero and everything else on: the other four rules still report.
C7_Witness ==
    /\ pc = "RULES_DONE"
    /\ req.code = CodeAll
    /\ req.rules[1] = [DefaultRuleConfig EXCEPT !.max_nested_loops = 0]
    /\ Len(rules_findings) = 4

\* C8: whenever the fence-stripped model text parses as an object, directly
\* or through the first-"{"-to-last-"}" slice, extraction succeeds and never
\* raises: suggestions is the object's suggestions when that is a sequence
\* and empty otherwise, optimized_code is the object's value when present
\* and the empty string when absent; an object with neither field included.
C8_ParsedObjectAlwaysExtracts ==
    (Replied200 /\ text # None /\ isinstance(ParseModelText(text.v), "dict")) =>
        LET object == ParseModelText(text.v)
            suggestions == get(object, key_suggestions, PyList(<<>>))
        IN  /\ pc = "SUCCESS"
            /\ response.body.suggestions =
                  Rendered(EngineFindings)
                  \o (IF isinstance(suggestions, "list") THEN suggestions.v ELSE <<>>)
            /\ response.body.optimized_code =
                  Or(get(object, key_optimized_code, PyStr(<<>>)), PyStr(req.code))

\* C9: for every structured text T serialising {suggestions, optimized_code},
\* extracting T wrapped in a fence with a language tag line and a trailing
\* fence yields the same suggestions and optimized_code as extracting T
\* unwrapped, whatever characters T's field values contain.
C9_FenceWrapperIsTransparent ==
    \A o \in ResultObjects :
        (Replied200 /\ upstream.text = json_dumps(ChatPayload(PyStr(Fenced(json_dumps(o)))))) =>
            LET plain == HandleReply(req.code, rules_findings, 200,
                                     json_dumps(ChatPayload(PyStr(json_dumps(o)))))
            IN  /\ pc = plain.terminal
                /\ response.body.suggestions = plain.body.suggestions
                /\ response.body.optimized_code = plain.body.optimized_code

\* Generated text is present in one of the tolerated payload shapes:
\* choices[0].message.content, choices[0].text, or top-level content/text.
HasGeneratedText(data) ==
    /\ isinstance(data, "dict")
    /\ \/ Truthy(ContentFromChoices(data))
       \/ Truthy(get(data, key_content, None))
       \/ Truthy(get(data, key_text, None))

\* C10: after a 200 reply the request ends in SUCCESS only if generated text
\* was found in a tolerated payload shape; a payload that carries no
\* generated text ends in EXTRACT_FAILURE: status 200 with ok=false, an
\* error, the raw model text, the raw payload and rules_findings.  (Stated
\* for payloads that are objects and hold neither result field themselves.)
C10_SuccessNeedsGeneratedText ==
    (/\ Replied200
     /\ json_loads(upstream.text).ok
     /\ isinstance(json_loads(upstream.text).v, "dict")
     /\ ~HasKey(json_loads(upstream.text).v, key_suggestions)
     /\ ~HasKey(json_loads(upstream.text).v, key_optimized_code)) =>
        /\ pc = "SUCCESS" => HasGeneratedText(json_loads(upstream.text).v)
        /\ ~HasGeneratedText(json_loads(upstream.text).v) =>
              /\ pc = "EXTRACT_FAILURE"
              /\ response.status = 200
              /\ response.body.ok = FALSE
              /\ {"error", "model_text", "raw", "rules_findings"} \subseteq DOMAIN response.body

====
